---- MODULE Spec2Model ----
(***************************************************************************)
(* Distance-vector router of simulator/dv_router.py: the RouteMap table    *)
(* (latencies, routes) and the DVRouter handlers that drive it.            *)
(*                                                                         *)
(* A mapping is the record [kDistance, kNextHop]; kTime only stamps the    *)
(* simulator clock and is read by nothing, so it is left out.  The dict    *)
(* self.routes is a function from its keys to per-host functions, and      *)
(* `order` keeps the order in which `for port in self.routes` visits the   *)
(* keys (insertion order; assigning to an existing key keeps its place).   *)
(* Every handler call is one step; `last`, `sent` and `notified` record    *)
(* what that call was, what it handed to self.send and how often it        *)
(* invoked route_update.                                                   *)
(***************************************************************************)
EXTENDS Integers, Sequences, FiniteSets, Bags, TLC

\* ---------------------------------------------------------------- constants
INFINITY == 16

INSTANCE_PORT == 0 - 1

\* ------------------------------------------------------------------- bounds
MaxPort == 2

MaxHost == 2

MaxCalls == 5

Ports == 1 .. MaxPort

Hosts == 1 .. MaxHost

\* latencies handed to handle_link_up
LatencyValues == {1, INFINITY + 1}

\* distances carried by a received RoutePacket
DistanceValues == {0, 1, INFINITY}

VARIABLES latencies, routes, order, up, POISON_MODE, last, sent, notified, calls

\* a network of such routers (used by SpecNet only): every router's RouteMap
\* and ports, the RoutePackets in flight on every directed link in order of
\* sending, and the latency of the link to the attached host
VARIABLES net, chan, hostLatency

netvars == <<net, chan, hostLatency>>

vars == <<latencies, routes, order, up, POISON_MODE, last, sent, notified, calls,
          net, chan, hostLatency>>


\* ----------------------------------------------------------------- mappings
m_mapping(distance, next_hop) == [kDistance |-> distance, kNextHop |-> next_hop]

m_distance(mapping) == mapping.kDistance

m_next_hop(mapping) == mapping.kNextHop

\* d[k] = v on a dict held as a function: the key is added when absent
Put(d, k, v) == [x \in (DOMAIN d) \cup {k} |-> IF x = k THEN v ELSE d[x]]

\* ----------------------------------------------------------------- messages
RoutePacket(port, host, latency) ==
    [kind |-> "route", port |-> port, host |-> host, dist |-> latency]

DataPacket(port, host) ==
    [kind |-> "data", port |-> port, host |-> host, dist |-> 0]

\* self.send(packet, port): one packet addressed to port
SendTo(pkt) == SetToBag({pkt})

\* self.send(packet, port, flood=True): one copy out of every port of the
\* entity except `port`
Flood(ups, except, kind, host, dist) ==
    SetToBag({[kind |-> kind, port |-> p, host |-> host, dist |-> dist] :
              p \in ups \ {except}})

\* the empty dict of a port that knows no host
NoHosts == [h \in {} |-> m_mapping(INFINITY, INSTANCE_PORT)]

\* --------------------------------------------------------- RouteMap.__init__
Init ==
    /\ latencies = [p \in {INSTANCE_PORT} |-> 0]
    /\ routes = [p \in {INSTANCE_PORT} |-> NoHosts]
    /\ order = <<INSTANCE_PORT>>
    /\ up = {}
    /\ POISON_MODE \in BOOLEAN
    /\ last = [op |-> "init", port |-> 0, host |-> 0, arg |-> 0, outcome |-> "ok",
               known |-> FALSE, was |-> m_mapping(INFINITY, 0), repeat |-> FALSE]
    /\ sent = EmptyBag
    /\ notified = EmptyBag
    /\ calls = 0
    /\ net = <<>>
    /\ chan = <<>>
    /\ hostLatency = 0

\* --------------------------------------------- RouteMap.update_route_for_host
RECURSIVE update_loop(_, _, _, _, _)
update_loop(rt, lat, ord, host, i) ==
    IF i > Len(ord) THEN rt
    ELSE LET port == ord[i]
             distance == lat[port] + m_distance(rt[port][host])
         IN  IF distance < m_distance(rt[INSTANCE_PORT][host])
             THEN update_loop([rt EXCEPT ![INSTANCE_PORT][host] =
                                  m_mapping(distance, port)],
                              lat, ord, host, i + 1)
             ELSE update_loop(rt, lat, ord, host, i + 1)

\* update_route_for_host without the reset of line 93: the minimum is taken
\* against the old distance
update_route_for_host_keep(rt, lat, ord, host) ==
    update_loop(rt, lat, ord, host, 1)

\* the table after update_route_for_host(host)
update_route_for_host(rt, lat, ord, host) ==
    update_loop([rt EXCEPT ![INSTANCE_PORT][host].kDistance = INFINITY],
                lat, ord, host, 1)

\* route_changed that also reports a change of next_hop
route_changed_mapping(before, after, host) ==
    after[INSTANCE_PORT][host] # before[INSTANCE_PORT][host]

\* route_changed that reports every reachable host
route_changed_finite(before, after, host) ==
    m_distance(after[INSTANCE_PORT][host]) # INFINITY

\* route_changed that reports only a shorter path
route_changed_shorter(before, after, host) ==
    m_distance(after[INSTANCE_PORT][host]) < m_distance(before[INSTANCE_PORT][host])

\* its return value (line 102): SELF's distance differs from the original one
route_changed(before, after, host) ==
    m_distance(after[INSTANCE_PORT][host]) # m_distance(before[INSTANCE_PORT][host])

\* ------------------------------------------------------ DVRouter.route_update
\* route_update that floods the real distance out of every port
route_update_all(rt, ups, poison, host) ==
    LET mapping == rt[INSTANCE_PORT][host]
        d == m_distance(mapping)
        nh == m_next_hop(mapping)
        flooded == IF d < INFINITY
                   THEN Flood(ups, INSTANCE_PORT, "route", host, d)
                   ELSE EmptyBag
        poisoned == IF ~poison THEN EmptyBag
                    ELSE IF d # INFINITY
                         THEN SendTo(RoutePacket(nh, host, INFINITY))
                         ELSE Flood(ups, INSTANCE_PORT, "route", host, d)
    IN  flooded (+) poisoned

\* route_update without the poisoned reverse of lines 292-295
route_update_no_reverse(rt, ups, poison, host) ==
    LET mapping == rt[INSTANCE_PORT][host]
        d == m_distance(mapping)
        nh == m_next_hop(mapping)
        flooded == IF d < INFINITY
                   THEN Flood(ups, nh, "route", host, d)
                   ELSE EmptyBag
        poisoned == IF ~poison \/ d # INFINITY THEN EmptyBag
                    ELSE Flood(ups, INSTANCE_PORT, "route", host, d)
    IN  flooded (+) poisoned

\* route_update that does not look at POISON_MODE (line 291)
route_update_any_mode(rt, ups, poison, host) ==
    LET mapping == rt[INSTANCE_PORT][host]
        d == m_distance(mapping)
        nh == m_next_hop(mapping)
        flooded == IF d < INFINITY
                   THEN Flood(ups, nh, "route", host, d)
                   ELSE EmptyBag
        poisoned == IF d # INFINITY
                    THEN SendTo(RoutePacket(nh, host, INFINITY))
                    ELSE Flood(ups, INSTANCE_PORT, "route", host, d)
    IN  flooded (+) poisoned

\* the packets one route_update(host) hands to self.send
route_update(rt, ups, poison, host) ==
    LET mapping == rt[INSTANCE_PORT][host]
        d == m_distance(mapping)
        nh == m_next_hop(mapping)
        flooded == IF d < INFINITY
                   THEN Flood(ups, nh, "route", host, d)
                   ELSE EmptyBag
        poisoned == IF ~poison THEN EmptyBag
                    ELSE IF d # INFINITY
                         THEN SendTo(RoutePacket(nh, host, INFINITY))
                         ELSE Flood(ups, INSTANCE_PORT, "route", host, d)
    IN  flooded (+) poisoned

\* the record of one handler call: what was called, how it ended (ok or the
\* exception that left the handler), SELF's mapping for the host before the
\* call, and whether the call repeats the previous one
NoMapping == m_mapping(INFINITY, 0)

Called(op, port, host, arg, outcome) ==
    /\ calls < MaxCalls
    /\ calls' = calls + 1
    /\ UNCHANGED netvars
    /\ last' = [op |-> op, port |-> port, host |-> host, arg |-> arg,
                outcome |-> outcome,
                known |-> host \in DOMAIN routes[INSTANCE_PORT],
                was |-> IF host \in DOMAIN routes[INSTANCE_PORT]
                        THEN routes[INSTANCE_PORT][host] ELSE NoMapping,
                repeat |-> /\ last.op = op /\ last.port = port
                           /\ last.host = host /\ last.arg = arg
                           /\ last.outcome = "ok"]

\* ------------------------------------------------------------------ add_link
RECURSIVE updates_for(_, _, _, _)
updates_for(rt, ups, poison, hosts) ==
    IF hosts = {} THEN EmptyBag
    ELSE LET h == CHOOSE x \in hosts : TRUE
         IN  route_update(rt, ups, poison, h)
                 (+) updates_for(rt, ups, poison, hosts \ {h})

\* add_link that also withdraws SELF's routes through the port
add_link_withdraw(rt, port) ==
    [Put(rt, port, [h \in DOMAIN rt[INSTANCE_PORT] |-> m_mapping(INFINITY, port)])
        EXCEPT ![INSTANCE_PORT] =
            [h \in DOMAIN rt[INSTANCE_PORT] |->
                IF m_next_hop(rt[INSTANCE_PORT][h]) = port
                THEN m_mapping(INFINITY, port) ELSE rt[INSTANCE_PORT][h]]]

\* add_link without the loop of lines 138-139: the port starts with no host
add_link_empty(rt, port) ==
    Put(rt, port, NoHosts)

\* lines 136-139: a fresh dict for the port, INFINITY for every host of SELF
add_link(rt, port) ==
    Put(rt, port, [h \in DOMAIN rt[INSTANCE_PORT] |-> m_mapping(INFINITY, port)])

handle_link_up(port, latency) ==
    /\ Called("handle_link_up", port, 0, latency, "ok")
    /\ latencies' = Put(latencies, port, latency)
    /\ routes' = add_link(routes, port)
    /\ order' = IF port \in DOMAIN routes THEN order ELSE Append(order, port)
    /\ up' = up \cup {port}
    /\ sent' = updates_for(routes', up', POISON_MODE, DOMAIN routes[INSTANCE_PORT])
    /\ notified' = SetToBag(DOMAIN routes[INSTANCE_PORT])
    /\ UNCHANGED POISON_MODE

\* ------------------------------------------------------------ received_route
\* seeding that leaves the next hop of a new entry at the router itself
seed_host_self(rt, port, host) ==
    IF host \in DOMAIN rt[port] THEN rt
    ELSE [_port \in DOMAIN rt |->
             IF host \in DOMAIN rt[_port] THEN rt[_port]
             ELSE Put(rt[_port], host, m_mapping(INFINITY, INSTANCE_PORT))]

\* lines 69-72: a host unseen on `port` is seeded on every key that lacks it
seed_host(rt, port, host) ==
    IF host \in DOMAIN rt[port] THEN rt
    ELSE [_port \in DOMAIN rt |->
             IF host \in DOMAIN rt[_port] THEN rt[_port]
             ELSE Put(rt[_port], host, m_mapping(INFINITY, port))]

\* lines 75-76: the neighbour's advertised distance is written
record_route(rt, port, host, latency) ==
    [seed_host(rt, port, host) EXCEPT ![port][host].kDistance = latency]

\* received_route that makes the table of a port it has not seen (as
\* routes.setdefault(port, {}) would) instead of raising KeyError
handle_route_packet_create(port, host, latency) ==
    LET known == IF port \in DOMAIN routes THEN routes
                 ELSE Put(routes, port, NoHosts)
        lats == IF port \in DOMAIN routes THEN latencies
                ELSE Put(latencies, port, 0)
        ord == IF port \in DOMAIN routes THEN order ELSE Append(order, port)
        written == record_route(known, port, host, latency)
        relaxed == update_route_for_host(written, lats, ord, host)
        changed == route_changed(written, relaxed, host)
    IN  /\ Called("handle_route_packet", port, host, latency, "ok")
        /\ routes' = relaxed
        /\ latencies' = lats
        /\ order' = ord
        /\ sent' = IF changed
                   THEN route_update(relaxed, up, POISON_MODE, host)
                   ELSE EmptyBag
        /\ notified' = IF changed THEN SetToBag({host}) ELSE EmptyBag
        /\ UNCHANGED <<up, POISON_MODE>>

handle_route_packet(port, host, latency) ==
    IF port \notin DOMAIN routes
    THEN \* self.routes[port] raises KeyError before anything is written
         /\ Called("handle_route_packet", port, host, latency, "KeyError")
         /\ sent' = EmptyBag
         /\ notified' = EmptyBag
         /\ UNCHANGED <<latencies, routes, order, up, POISON_MODE>>
    ELSE LET written == record_route(routes, port, host, latency)
             relaxed == update_route_for_host(written, latencies, order, host)
             changed == route_changed(written, relaxed, host)
         IN  /\ Called("handle_route_packet", port, host, latency, "ok")
             /\ routes' = relaxed
             /\ sent' = IF changed
                        THEN route_update(relaxed, up, POISON_MODE, host)
                        ELSE EmptyBag
             /\ notified' = IF changed THEN SetToBag({host}) ELSE EmptyBag
             /\ UNCHANGED <<latencies, order, up, POISON_MODE>>

\* ------------------------------------------------------------- host_discover
\* line 110
discover_entry(rt, port, host) ==
    [rt EXCEPT ![port] = Put(rt[port], host, m_mapping(0, port))]

\* lines 114-118, host not yet in SELF's table
discover_new(rt, lat, port, host) ==
    LET own == [discover_entry(rt, port, host) EXCEPT ![INSTANCE_PORT] =
                   Put(rt[INSTANCE_PORT], host, m_mapping(lat[port], port))]
    IN  [p \in DOMAIN own |->
            IF host \in DOMAIN own[p] THEN own[p]
            ELSE Put(own[p], host, m_mapping(INFINITY, p))]

handle_host_discover_packet(port, host) ==
    IF port \notin DOMAIN routes
    THEN \* self.routes[port] raises KeyError before anything is written
         /\ Called("handle_host_discover_packet", port, host, 0, "KeyError")
         /\ sent' = EmptyBag
         /\ notified' = EmptyBag
         /\ UNCHANGED <<latencies, routes, order, up, POISON_MODE>>
    ELSE IF host \notin DOMAIN routes[INSTANCE_PORT]
    THEN /\ Called("handle_host_discover_packet", port, host, 0, "ok")
         /\ routes' = discover_new(routes, latencies, port, host)
         /\ sent' = route_update(routes', up, POISON_MODE, host)
         /\ notified' = SetToBag({host})
         /\ UNCHANGED <<latencies, order, up, POISON_MODE>>
    ELSE \* line 122 reads the unbound name `mapping`: NameError after line 110
         /\ Called("handle_host_discover_packet", port, host, 0, "NameError")
         /\ routes' = discover_entry(routes, port, host)
         /\ sent' = EmptyBag
         /\ notified' = EmptyBag
         /\ UNCHANGED <<latencies, order, up, POISON_MODE>>

\* ----------------------------------------------------------------- handle_rx
\* handle_rx without the test of line 240: the packet always goes to next_hop
handle_rx_bounce(port, host) ==
    IF host \notin DOMAIN routes[INSTANCE_PORT]
    THEN /\ Called("handle_rx", port, host, 0, "TypeError")
         /\ sent' = Flood(up, port, "data", host, 0)
         /\ notified' = EmptyBag
         /\ UNCHANGED <<latencies, routes, order, up, POISON_MODE>>
    ELSE LET next_hop == m_next_hop(routes[INSTANCE_PORT][host])
         IN  /\ Called("handle_rx", port, host, 0, "ok")
             /\ sent' = SendTo(DataPacket(next_hop, host))
             /\ notified' = EmptyBag
             /\ UNCHANGED <<latencies, routes, order, up, POISON_MODE>>

\* lines 235-246, a packet that is neither RoutePacket nor HostDiscoveryPacket
handle_rx(port, host) ==
    IF host \notin DOMAIN routes[INSTANCE_PORT]
    THEN \* next_hop returns DESTINATION_NOT_FOUND; the flood of line 238 is
         \* followed by m_next_hop on that string: TypeError at line 239
         /\ Called("handle_rx", port, host, 0, "TypeError")
         /\ sent' = Flood(up, port, "data", host, 0)
         /\ notified' = EmptyBag
         /\ UNCHANGED <<latencies, routes, order, up, POISON_MODE>>
    ELSE LET next_hop == m_next_hop(routes[INSTANCE_PORT][host])
         IN  /\ Called("handle_rx", port, host, 0, "ok")
             /\ sent' = IF next_hop # port
                        THEN SendTo(DataPacket(next_hop, host))
                        ELSE IF POISON_MODE
                             THEN SendTo(RoutePacket(port, host, INFINITY))
                             ELSE EmptyBag
             /\ notified' = EmptyBag
             /\ UNCHANGED <<latencies, routes, order, up, POISON_MODE>>

\* ---------------------------------------------------------- handle_link_down
\* only logs: the table keeps the port; the simulator has removed the link
handle_link_down(port) ==
    /\ port \in up
    /\ Called("handle_link_down", port, 0, 0, "ok")
    /\ up' = up \ {port}
    /\ sent' = EmptyBag
    /\ notified' = EmptyBag
    /\ UNCHANGED <<latencies, routes, order, POISON_MODE>>

\* Ports and hosts are opaque identifiers that the code only uses as dict
\* keys, so a port (host) not seen before is always taken to be the
\* lowest-numbered unused one: every other run is a renaming of such a run.
PortInputs == {p \in Ports : p <= Len(order)}

HostInputs == {h \in Hosts : h <= Cardinality(DOMAIN routes[INSTANCE_PORT]) + 1}

\* the table operations: add_link, received_route, host_discover
Next ==
    \/ \E port \in PortInputs, latency \in LatencyValues : handle_link_up(port, latency)
    \/ \E port \in PortInputs, host \in HostInputs, latency \in DistanceValues :
           handle_route_packet(port, host, latency)
    \/ \E port \in PortInputs, host \in HostInputs : handle_host_discover_packet(port, host)

Spec == Init /\ [][Next]_vars

\* every handler of the router, data packets and link-down included
NextRx ==
    \/ \E port \in PortInputs, latency \in LatencyValues : handle_link_up(port, latency)
    \/ \E port \in PortInputs : handle_link_down(port)
    \/ \E port \in PortInputs, host \in HostInputs, latency \in DistanceValues :
           handle_route_packet(port, host, latency)
    \/ \E port \in PortInputs, host \in HostInputs : handle_host_discover_packet(port, host)
    \/ \E port \in PortInputs, host \in HostInputs : handle_rx(port, host)

SpecRx == Init /\ [][NextRx]_vars

\* the table operations with a negative latency among the link-up inputs
NegativeLatency == 0 - 1

NextNeg ==
    \/ \E port \in PortInputs, latency \in LatencyValues \cup {NegativeLatency} :
           handle_link_up(port, latency)
    \/ \E port \in PortInputs, host \in HostInputs, latency \in DistanceValues :
           handle_route_packet(port, host, latency)
    \/ \E port \in PortInputs, host \in HostInputs : handle_host_discover_packet(port, host)

SpecNeg == Init /\ [][NextNeg]_vars


\* ------------------------------------------------------ a network of routers
\* Three routers in a triangle, named by their numbers; router r calls its
\* port to router n by n's number and its port to the host HostPort.  The
\* host hangs off router HostRouter.
Routers == {1, 2, 3}

HostRouter == 1

HostPort == 0

NetHost == 1

LinkLatency(a, b) == IF {a, b} = {1, 3} THEN 3 ELSE 1

Neighbours(r) == Routers \ {r}

HostLatencyValues == {1, INFINITY - 2, INFINITY + 1}

\* a router as RouteMap.__init__ / DVRouter.__init__ leave it
NewRouter ==
    [latencies |-> [p \in {INSTANCE_PORT} |-> 0],
     routes |-> [p \in {INSTANCE_PORT} |-> NoHosts],
     order |-> <<INSTANCE_PORT>>,
     up |-> {}]

InitNet ==
    /\ latencies = [p \in {INSTANCE_PORT} |-> 0]
    /\ routes = [p \in {INSTANCE_PORT} |-> NoHosts]
    /\ order = <<INSTANCE_PORT>>
    /\ up = {}
    /\ POISON_MODE \in BOOLEAN
    /\ last = [op |-> "init", port |-> 0, host |-> 0, arg |-> 0, outcome |-> "ok",
               known |-> FALSE, was |-> m_mapping(INFINITY, 0), repeat |-> FALSE]
    /\ sent = EmptyBag
    /\ notified = EmptyBag
    /\ calls = 0
    /\ net = [r \in Routers |-> NewRouter]
    /\ chan = [l \in {<<a, b>> \in Routers \X Routers : a # b} |-> <<>>]
    /\ hostLatency \in HostLatencyValues

\* the packets of `out` that router r addressed to its port n, appended to
\* the link r -> n (one route_update sends a port at most one packet)
Transmit(ch, r, out) ==
    [l \in DOMAIN ch |->
        IF l[1] = r /\ \E m \in BagToSet(out) : m.port = l[2]
        THEN Append(ch[l], CHOOSE m \in BagToSet(out) : m.port = l[2])
        ELSE ch[l]]

\* handle_link_up at router r for its port `port`: registered once, no link
\* goes down
NetLinkUp(r, port, latency) ==
    /\ port \notin DOMAIN net[r].routes
    /\ LET rt == add_link(net[r].routes, port)
           ups == net[r].up \cup {port}
       IN  /\ net' = [net EXCEPT ![r] =
                         [latencies |-> Put(net[r].latencies, port, latency),
                          routes |-> rt,
                          order |-> Append(net[r].order, port),
                          up |-> ups]]
           /\ chan' = Transmit(chan, r,
                               updates_for(rt, ups, POISON_MODE,
                                           DOMAIN net[r].routes[INSTANCE_PORT]))
    /\ UNCHANGED <<latencies, routes, order, up, POISON_MODE, last, sent,
                 notified, calls, hostLatency>>

\* the HostDiscoveryPacket of the host, once, at the router it hangs off,
\* which has not heard of the host
NetDiscover ==
    /\ HostPort \in DOMAIN net[HostRouter].routes
    /\ NetHost \notin DOMAIN net[HostRouter].routes[INSTANCE_PORT]
    /\ LET me == net[HostRouter]
           rt == discover_new(me.routes, me.latencies, HostPort, NetHost)
       IN  /\ net' = [net EXCEPT ![HostRouter].routes = rt]
           /\ chan' = Transmit(chan, HostRouter,
                               route_update(rt, me.up, POISON_MODE, NetHost))
    /\ UNCHANGED <<latencies, routes, order, up, POISON_MODE, last, sent,
                 notified, calls, hostLatency>>

\* received_route at a router `me` for the RoutePacket `pkt` heard on port n:
\* the advertised distance is stored, then the host is relaxed
received_route(me, n, pkt) ==
    update_route_for_host(record_route(me.routes, n, pkt.host, pkt.dist),
                          me.latencies, me.order, pkt.host)

\* handle_route_packet: route_update for the host when received_route
\* reports a change, nothing otherwise
triggered_update(me, n, pkt, poison) ==
    IF route_changed(record_route(me.routes, n, pkt.host, pkt.dist),
                     received_route(me, n, pkt), pkt.host)
    THEN route_update(received_route(me, n, pkt), me.up, poison, pkt.host)
    ELSE EmptyBag

\* the oldest RoutePacket on the link n -> r reaches handle_route_packet of
\* r, which has registered its end of the link
NetDeliver(r, n) ==
    /\ chan[<<n, r>>] # <<>>
    /\ n \in DOMAIN net[r].routes
    /\ net' = [net EXCEPT ![r].routes =
                  received_route(net[r], n, Head(chan[<<n, r>>]))]
    /\ chan' = Transmit([chan EXCEPT ![<<n, r>>] = Tail(@)], r,
                        triggered_update(net[r], n, Head(chan[<<n, r>>]),
                                         POISON_MODE))
    /\ UNCHANGED <<latencies, routes, order, up, POISON_MODE, last, sent,
                 notified, calls, hostLatency>>

\* the links between routers come up, each end on its own
NetLinks ==
    \E r \in Routers : \E n \in Neighbours(r) : NetLinkUp(r, n, LinkLatency(r, n))

\* the link of the host comes up at its router
NetHostLink == NetLinkUp(HostRouter, HostPort, hostLatency)

NetDeliveries == \E r \in Routers : \E n \in Neighbours(r) : NetDeliver(r, n)

NextNet ==
    \/ NetLinks
    \/ NetHostLink
    \/ NetDiscover
    \/ NetDeliveries

SpecNet == InitNet /\ [][NextNet]_vars

\* the triggered updates run to the end: every enabled event happens
FairSpecNet ==
    /\ SpecNet
    /\ WF_vars(NetLinks)
    /\ WF_vars(NetHostLink)
    /\ WF_vars(NetDiscover)
    /\ WF_vars(NetDeliveries)

\* ===================================================================== claims
Registered == DOMAIN routes \ {INSTANCE_PORT}

Known == DOMAIN routes[INSTANCE_PORT]

SelfEntry(h) == routes[INSTANCE_PORT][h]

Leg(p, h) == latencies[p] + m_distance(routes[p][h])

Clamp(d) == IF d < INFINITY THEN d ELSE INFINITY

RouteCallOk == last.op = "handle_route_packet" /\ last.outcome = "ok"

\* C1: after every call, for every host known to SELF, SELF's distance is the
\* least latency(p) + table[p][h].distance over the registered ports, clamped
\* at INFINITY.
C1_FixedPoint ==
    \A h \in Known :
        /\ Registered # {}
        /\ \E p \in Registered : m_distance(SelfEntry(h)) = Clamp(Leg(p, h))
        /\ \A p \in Registered : m_distance(SelfEntry(h)) <= Clamp(Leg(p, h))

\* C5: when update_route_for_host has run for a host all of whose legs are
\* INFINITY or more, SELF's distance for it is exactly INFINITY.
C5_ClampedRelax ==
    (RouteCallOk /\ \A p \in Registered : Leg(p, last.host) >= INFINITY)
        => m_distance(SelfEntry(last.host)) = INFINITY

\* C5 witness: a finite route was withdrawn and the only legs left exceed
\* INFINITY (a latency of 17, an advertised 16).
C5_Witness ==
    /\ RouteCallOk
    /\ m_distance(last.was) < INFINITY
    /\ \A p \in Registered : Leg(p, last.host) > INFINITY
    /\ \E p \in Registered : latencies[p] > INFINITY
    /\ m_distance(SelfEntry(last.host)) = INFINITY

\* C6: every SELF distance lies in 0..INFINITY.
C6_BoundedDistance ==
    \A h \in Known : m_distance(SelfEntry(h)) \in 0 .. INFINITY

\* the scenario's node: neighbours on ports 1 and 2 only, both at latency 1
ScenarioLinks ==
    /\ Registered = {1, 2}
    /\ latencies[1] = 1
    /\ latencies[2] = 1

\* port 2 has just advertised the host at 0 while SELF held {1, next_hop 1}
\* over port 1's advertised 0
SecondAdvertisement ==
    /\ RouteCallOk /\ ScenarioLinks
    /\ last.port = 2 /\ last.arg = 0
    /\ last.was = m_mapping(1, 1)
    /\ m_distance(routes[1][last.host]) = 0

\* port 1 has just withdrawn the host (INFINITY) while SELF held
\* {1, next_hop 1} and port 2 advertises 0
Withdrawal ==
    /\ RouteCallOk /\ ScenarioLinks
    /\ last.port = 1 /\ last.arg = INFINITY
    /\ last.was = m_mapping(1, 1)
    /\ m_distance(routes[2][last.host]) = 0

\* SELF's next_hop for a host it already knew is another port than before
NextHopChanged ==
    /\ RouteCallOk /\ last.known
    /\ m_next_hop(SelfEntry(last.host)) # m_next_hop(last.was)

Once(h) == SetToBag({h})

\* C2 as stated: the second advertisement leaves SELF at {1, next_hop 1}
\* silently, the withdrawal leaves {1, next_hop 2} and notifies once, and any
\* received_route that changes SELF's next_hop notifies once.
C2_NextHopChangeNotifies ==
    /\ SecondAdvertisement =>
           SelfEntry(last.host) = m_mapping(1, 1) /\ notified = EmptyBag
    /\ Withdrawal =>
           SelfEntry(last.host) = m_mapping(1, 2) /\ notified = Once(last.host)
    /\ NextHopChanged => notified = Once(last.host)

\* C2 (amended): the second advertisement leaves SELF at {1, next_hop 1}
\* silently, the withdrawal leaves {1, next_hop 2} and fires no notification,
\* and a received_route that changes SELF's next_hop notifies once when
\* SELF's distance changed too and not at all when it did not.
C2_NotifiesOnDistanceOnly ==
    /\ SecondAdvertisement =>
           SelfEntry(last.host) = m_mapping(1, 1) /\ notified = EmptyBag
    /\ Withdrawal =>
           SelfEntry(last.host) = m_mapping(1, 2) /\ notified = EmptyBag
    /\ NextHopChanged =>
           notified = IF m_distance(SelfEntry(last.host)) # m_distance(last.was)
                      THEN Once(last.host) ELSE EmptyBag

\* C2 witness: the withdrawal of the scenario has run and moved the route to
\* port 2 at the same distance.
C2_Witness ==
    /\ Withdrawal
    /\ SelfEntry(last.host) = m_mapping(1, 2)
    /\ m_distance(routes[1][last.host]) = INFINITY

RepeatedRoute(l) ==
    l.op = "handle_route_packet" /\ l.outcome = "ok" /\ l.repeat

\* C3: a received_route that repeats the previous call (same port, host and
\* distance) invokes route_update for no host and leaves the table as it was.
C3_Idempotent ==
    [][RepeatedRoute(last') => (notified' = EmptyBag /\ routes' = routes)]_vars

\* C3 witness: a repeated advertisement of a finite distance that the first
\* call had made SELF's route.
C3_Witness ==
    /\ RepeatedRoute(last)
    /\ last.arg < INFINITY
    /\ m_next_hop(SelfEntry(last.host)) = last.port
    /\ m_distance(SelfEntry(last.host)) = latencies[last.port] + last.arg

FiniteAdvertisements ==
    {m \in BagToSet(sent) : m.kind = "route" /\ m.dist < INFINITY}

\* C4: with POISON_MODE on, no call sends an advertisement with a distance
\* below INFINITY for a host out of the port that is SELF's next_hop for it.
C4_PoisonReverse ==
    POISON_MODE =>
        \A m \in FiniteAdvertisements : m.port # m_next_hop(SelfEntry(m.host))

\* C4 witness: route_update has flooded a finite distance to another port and
\* sent the poisoned INFINITY to the next_hop.
C4_Witness ==
    /\ POISON_MODE
    /\ \E m \in FiniteAdvertisements :
           RoutePacket(m_next_hop(SelfEntry(m.host)), m.host, INFINITY)
               \in BagToSet(sent)

\* C7: handle_link_up leaves SELF's table as it was: no entry is added,
\* removed or changed.
C7_LinkUpKeepsSelf ==
    [][last'.op = "handle_link_up" =>
           routes'[INSTANCE_PORT] = routes[INSTANCE_PORT]]_vars

\* C7 witness: the port of a finite SELF route was registered again: its
\* entry is back at INFINITY and SELF still holds the route.
C7_Witness ==
    /\ last.op = "handle_link_up"
    /\ \E h \in Known :
           /\ m_next_hop(SelfEntry(h)) = last.port
           /\ m_distance(SelfEntry(h)) < INFINITY
           /\ m_distance(routes[last.port][h]) = INFINITY

\* C8: handle_link_up on a port that is already registered keeps the
\* distance of every entry the port holds.
C8_LinkUpKeepsEntries ==
    [][(last'.op = "handle_link_up" /\ last'.port \in DOMAIN routes) =>
           \A h \in DOMAIN routes[last'.port] :
               m_distance(routes'[last'.port][h])
                   = m_distance(routes[last'.port][h])]_vars

DiscoverCall ==
    last.op = "handle_host_discover_packet" /\ last.port \in Registered

\* C9: host_discover on a registered port completes and invokes route_update
\* for the host once, and when the host was known and latency(port) is below
\* SELF's distance, SELF becomes {latency(port), port}.
C9_DiscoverNotifies ==
    DiscoverCall =>
        /\ last.outcome = "ok"
        /\ notified = Once(last.host)
        /\ (last.known /\ latencies[last.port] < m_distance(last.was)) =>
               SelfEntry(last.host) = m_mapping(latencies[last.port], last.port)

\* C10: a data packet for a destination SELF has never seen is flooded to
\* every port but the inbound one and the handler returns normally.
C10_UnknownFlooded ==
    (last.op = "handle_rx" /\ ~last.known) =>
        /\ last.outcome = "ok"
        /\ sent = Flood(up, last.port, "data", last.host, 0)

DataSent == {m \in BagToSet(sent) : m.kind = "data"}

\* C11: a data packet for a known destination goes out of SELF's next_hop
\* exactly when that is not the inbound port; otherwise no data packet is
\* sent and the poisoned (destination, INFINITY) goes to the inbound port
\* exactly when POISON_MODE is on.  No handle_rx sends a data packet out of
\* the port it came in on.
C11_NoBounceBack ==
    last.op = "handle_rx" =>
        /\ \A m \in DataSent : m.port # last.port
        /\ last.known =>
               sent = IF m_next_hop(SelfEntry(last.host)) # last.port
                      THEN SendTo(DataPacket(m_next_hop(SelfEntry(last.host)),
                                             last.host))
                      ELSE IF POISON_MODE
                           THEN SendTo(RoutePacket(last.port, last.host, INFINITY))
                           ELSE EmptyBag

\* C11 witness: the packet came in on the next_hop of a finite route and was
\* answered with the poisoned advertisement only.
C11_Witness ==
    /\ last.op = "handle_rx" /\ last.known /\ POISON_MODE
    /\ m_next_hop(SelfEntry(last.host)) = last.port
    /\ m_distance(SelfEntry(last.host)) < INFINITY
    /\ sent = SendTo(RoutePacket(last.port, last.host, INFINITY))

\* C12: handle_link_up with a negative latency fails with InvalidLatency and
\* leaves the latencies and the table as they were.
C12_RejectsNegative ==
    [][(last'.op = "handle_link_up" /\ last'.arg < 0) =>
           /\ last'.outcome = "InvalidLatency"
           /\ latencies' = latencies
           /\ routes' = routes]_vars

PortEvent(l) ==
    l.op \in {"handle_route_packet", "handle_host_discover_packet"}

\* C13: a RoutePacket or HostDiscoveryPacket on a port that was never
\* registered ends in an error, leaves the latencies and every table entry as
\* they were and sends nothing.
C13_UnregisteredRejected ==
    [][(PortEvent(last') /\ last'.port \notin DOMAIN routes) =>
           /\ last'.outcome # "ok"
           /\ latencies' = latencies
           /\ routes' = routes
           /\ order' = order
           /\ sent' = EmptyBag
           /\ notified' = EmptyBag]_vars

\* C13 witness: an advertisement for a new host on an unregistered port was
\* refused by a router that already has a port and a host.
C13_Witness ==
    /\ last.op = "handle_route_packet"
    /\ last.outcome = "KeyError"
    /\ last.port \notin Registered
    /\ ~last.known
    /\ Registered # {} /\ Known # {}

\* C14: after every call, completed or failed, every key of the table (SELF
\* included) holds exactly the same hosts.
C14_Rectangular ==
    \A p \in DOMAIN routes : DOMAIN routes[p] = Known

\* C14 witness: two ports and two hosts, the latest call being a failed
\* host_discover that wrote its port's entry.
C14_Witness ==
    /\ Cardinality(Registered) >= 2
    /\ Cardinality(Known) >= 2
    /\ last.outcome = "NameError"

\* C15: after handle_link_down(p) no SELF entry routes through p at a
\* distance below INFINITY, and no data packet is forwarded out of a port
\* whose link is down.
C15_LinkDownInvalidates ==
    /\ last.op = "handle_link_down" =>
           \A h \in Known :
               m_next_hop(SelfEntry(h)) = last.port
                   => m_distance(SelfEntry(h)) >= INFINITY
    /\ last.op = "handle_rx" =>
           \A m \in DataSent : m.port \in up \/ m.port \notin Registered

\* the one host route_update was invoked for, exactly once, in the last call
OneUpdate(h) == h \in Known /\ notified = Once(h)

\* C16: with POISON_MODE on, one route_update for a host with SELF entry
\* {d, n} sends exactly (h, d) to every port but n plus one (h, INFINITY) to
\* n when d < INFINITY, and (h, INFINITY) to every port when d = INFINITY.
C16_PoisonMessages ==
    POISON_MODE =>
        \A h \in Hosts :
            OneUpdate(h) =>
                LET d == m_distance(SelfEntry(h))
                    n == m_next_hop(SelfEntry(h))
                IN  /\ d < INFINITY =>
                           sent = Flood(up, n, "route", h, d)
                                      (+) SendTo(RoutePacket(n, h, INFINITY))
                    /\ d = INFINITY =>
                           sent = Flood(up, INSTANCE_PORT, "route", h, INFINITY)

\* C16 witness: a finite route with two ports up: the distance went to the
\* other port and the poison to the next_hop.
C16_Witness ==
    /\ POISON_MODE
    /\ \E h \in Hosts :
           /\ OneUpdate(h)
           /\ m_distance(SelfEntry(h)) < INFINITY
           /\ Cardinality(up) >= 2
           /\ BagCardinality(sent) = Cardinality(up)

RouteSent == {m \in BagToSet(sent) : m.kind = "route"}

\* C17: with POISON_MODE off, one route_update for a host sends (h, d), d
\* being SELF's distance after the call, to every port but next_hop when
\* d < INFINITY and nothing when d = INFINITY, and no handler sends an
\* advertisement that carries INFINITY.
C17_BasicFlooding ==
    ~POISON_MODE =>
        /\ \A m \in RouteSent : m.dist < INFINITY
        /\ \A h \in Hosts :
               OneUpdate(h) =>
                   LET d == m_distance(SelfEntry(h))
                       n == m_next_hop(SelfEntry(h))
                   IN  /\ d < INFINITY => sent = Flood(up, n, "route", h, d)
                       /\ d = INFINITY => sent = EmptyBag

\* C17 witness: a route was withdrawn with the flag off: route_update ran
\* for a distance of INFINITY and sent nothing.
C17_Witness ==
    /\ ~POISON_MODE
    /\ RouteCallOk
    /\ OneUpdate(last.host)
    /\ m_distance(SelfEntry(last.host)) = INFINITY
    /\ up # {}
    /\ sent = EmptyBag

\* C18: a received_route on a registered port invokes route_update once for
\* its host when SELF's distance for it differs from the one before the call
\* (INFINITY for a host not known before), and for no host otherwise.
C18_TriggeredUpdate ==
    RouteCallOk =>
        notified = IF m_distance(SelfEntry(last.host)) # m_distance(last.was)
                   THEN Once(last.host) ELSE EmptyBag

\* C18 witness: the advertisement made SELF's distance worse (a finite route
\* became INFINITY) and route_update ran once.
C18_Witness ==
    /\ RouteCallOk /\ last.known
    /\ m_distance(last.was) < INFINITY
    /\ m_distance(SelfEntry(last.host)) = INFINITY
    /\ notified = Once(last.host)

\* C19: the next_hop of every SELF entry is a registered port, never the
\* router's own key, also when the distance is INFINITY.
C19_NextHopRegistered ==
    \A h \in Known : m_next_hop(SelfEntry(h)) \in Registered

\* C19 witness: a host that an advertisement of INFINITY made known: its
\* SELF entry is at INFINITY and points at the advertising port.
C19_Witness ==
    /\ RouteCallOk /\ ~last.known
    /\ m_distance(SelfEntry(last.host)) = INFINITY
    /\ m_next_hop(SelfEntry(last.host)) = last.port

\* every link is registered at both ends, the host is discovered and no
\* RoutePacket is in flight
Quiescent ==
    /\ \A r \in Routers : Neighbours(r) \subseteq DOMAIN net[r].routes
    /\ NetHost \in DOMAIN net[HostRouter].routes[INSTANCE_PORT]
    /\ \A l \in DOMAIN chan : chan[l] = <<>>

\* the shortest path latency between a router and the host's router
PathLatency(r) == IF r = 1 THEN 0 ELSE IF r = 2 THEN 1 ELSE 2

\* SELF's distance of router r for the host, INFINITY when r has no entry
NetDistance(r) ==
    IF NetHost \in DOMAIN net[r].routes[INSTANCE_PORT]
    THEN m_distance(net[r].routes[INSTANCE_PORT][NetHost])
    ELSE INFINITY

\* C20: once nothing is in flight, every router's SELF distance for the host
\* is the shortest path latency to the host's router plus the latency of the
\* host's link, or INFINITY when that is 16 or more.
C20_Converged ==
    Quiescent =>
        \A r \in Routers : NetDistance(r) = Clamp(PathLatency(r) + hostLatency)

\* C20, the part that holds: the same with the router of the host left out
\* when the host's link has a latency above INFINITY.
C20_ConvergedButHostLink ==
    Quiescent =>
        \A r \in Routers :
            (r # HostRouter \/ hostLatency <= INFINITY) =>
                NetDistance(r) = Clamp(PathLatency(r) + hostLatency)

\* C20, termination: under fairness the network becomes quiescent.
C20_Terminates == <>Quiescent

====
